---- MODULE Spec2Model ----
(***************************************************************************)
(* A model of the venue routes of app.py (Flask + Flask-SQLAlchemy on      *)
(* PostgreSQL): the venues and shows tables, the request form, and the     *)
(* handlers venues, search_venues, show_venue, create_venue_submission,    *)
(* delete_venue, edit_venue and edit_venue_submission.                     *)
(*                                                                         *)
(* Text values are sequences of one-character strings, so that ILIKE       *)
(* matching and the VARCHAR(n) limits of the schema are computed on the    *)
(* characters.  Python's None is the value None below, which is no text.   *)
(***************************************************************************)
EXTENDS Integers, Sequences, FiniteSets, TLC

VARIABLES db_venues, db_shows, db_artists, venues_id_seq, inflight,
          request, before, raised, flashed, response

vars == <<db_venues, db_shows, db_artists, venues_id_seq, inflight,
          request, before, raised, flashed, response>>

(***************************************************************************)
(* Bounds of the model.                                                    *)
(***************************************************************************)
\* The venues_id_seq sequence hands out the ids 1..MaxId.
MaxId == 2

(***************************************************************************)
(* Python values.                                                          *)
(***************************************************************************)
\* None: what request.form.get returns for a field the form does not carry.
None == <<"None">>

\* str(value) as an f-string formats it: None becomes the text "None".
Str(v) == IF v = None THEN <<"N", "o", "n", "e">> ELSE v

\* bool(value) of a form value: None and the empty string are false.
Truthy(v) == v # None /\ v # <<>>

\* request.form.get(key)
Get(form, key) == IF key \in DOMAIN form THEN form[key] ELSE None

\* request.form.getlist(key)
GetList(form, key) == IF key \in DOMAIN form THEN form[key] ELSE <<>>

(***************************************************************************)
(* The schema: class Venue and class Show.                                 *)
(***************************************************************************)
\* db.String(120) and db.String(500)
ShortLen == 120
LongLen == 500

\* The text columns of venues, all nullable=False.
TextCols == {"name", "address", "city", "state", "phone", "website",
             "seeking_description", "image_link", "facebook_link"}

\* Every column of venues but the primary key.
Cols == TextCols \cup {"genres", "seeking_talent"}

\* The declared length of a text column; 0 stands for db.String without one.
ColLimit(c) ==
    CASE c = "name" -> 0
      [] c \in {"seeking_description", "image_link"} -> LongLen
      [] OTHER -> ShortLen

\* The exceptions a handler can catch, by the error they carry.
NoError == "none"
NotNullViolation == "NotNullViolation"
StringDataRightTruncation == "StringDataRightTruncation"
NotFound == "404 Not Found"
StaleDataError == "StaleDataError"
TypeError == "TypeError"

\* What PostgreSQL answers when the columns cols of row are written: a value
\* longer than its VARCHAR(n) is refused when the row is formed, a NULL in a
\* NOT NULL column when the constraints are checked.  genres is never NULL
\* (getlist returns a list) and seeking_talent is always a boolean.
CheckRow(row, cols) ==
    IF \E c \in cols \cap TextCols :
          row[c] # None /\ ColLimit(c) > 0 /\ Len(row[c]) > ColLimit(c)
    THEN StringDataRightTruncation
    ELSE IF \E c \in cols \cap TextCols : row[c] = None
    THEN NotNullViolation
    ELSE NoError

(***************************************************************************)
(* The forms the requests submit.  A form is a function from the names of  *)
(* the fields it carries to their values; genres is a list of texts.       *)
(***************************************************************************)
FormFields == {"name", "genres", "address", "city", "state", "phone",
               "website_link", "seeking_talent", "seeking_description",
               "image_link", "facebook_link"}

Form1 ==
    [name |-> <<"H", "o", "p">>, genres |-> << <<"J">> >>,
     address |-> <<"1">>, city |-> <<"S", "F">>, state |-> <<"C", "A">>,
     phone |-> <<"5">>, website_link |-> <<"w">>, seeking_talent |-> <<"y">>,
     seeking_description |-> <<"d">>, image_link |-> <<"i">>,
     facebook_link |-> <<"f">>]

Form2 ==
    [name |-> <<"a", "_", "b">>, genres |-> << <<"R">>, <<"J">> >>,
     address |-> <<"2">>, city |-> <<"S", "F">>, state |-> <<"N", "Y">>,
     phone |-> <<"6">>, website_link |-> <<"v">>,
     seeking_description |-> <<>>, image_link |-> <<"j">>,
     facebook_link |-> <<"g">>]

Form3 ==
    [name |-> <<"n", "O", "N", "e">>, genres |-> << <<"J">> >>,
     address |-> <<"1">>, city |-> <<"N", "Y">>, state |-> <<"N", "Y">>,
     phone |-> <<"5">>, website_link |-> <<"w">>, seeking_talent |-> <<"y">>,
     seeking_description |-> <<"d">>, image_link |-> <<"i">>,
     facebook_link |-> <<"f">>]

\* form without the fields of drop
Drop(form, drop) == [k \in DOMAIN form \ drop |-> form[k]]

\* a text one character longer than n
TooLong(n) == [i \in 1..(n + 1) |-> "x"]

\* The submitted venue forms: the complete ones (Form2 leaves the checkbox
\* seeking_talent unticked, as a browser submits it), Form1 short of each
\* other single field, Form2 short of two, the empty form, and Form1 with a
\* value that does not fit its column.
Forms ==
    {Form1, Form2, Form3}
    \cup {Drop(Form1, {k}) : k \in FormFields \ {"seeking_talent"}}
    \cup {Drop(Form2, {"genres", "phone"}), Drop(Form1, FormFields)}
    \cup {[Form1 EXCEPT !.address = TooLong(ShortLen)]}

\* The edit forms: the complete ones, Form1 short of a field the handler reads
\* with getlist or with get, Form2 short of two, the empty form and the value
\* that does not fit.
EditForms ==
    {Form1, Form2, Form3}
    \cup {Drop(Form1, {k}) : k \in {"genres", "name", "city"}}
    \cup {Drop(Form2, {"genres", "phone"}), Drop(Form1, FormFields)}
    \cup {[Form1 EXCEPT !.address = TooLong(ShortLen)]}

\* The form a request without fields carries.
EmptyForm == Drop(Form1, FormFields)

\* The ids a request names: those the sequence hands out and one it never
\* does.  (The delete route takes any text as venue_id; the requests here
\* name numbers.)
Ids == 1..(MaxId + 1)

(***************************************************************************)
(* The ORM session against the tables.  A table is a function from the ids *)
(* of its rows to the rows.                                                *)
(***************************************************************************)
\* Venue(...) reading the website from a field "website" the form never has.
VenueWebsiteField(form) ==
    [name |-> Get(form, "name"),
     genres |-> GetList(form, "genres"),
     address |-> Get(form, "address"),
     city |-> Get(form, "city"),
     state |-> Get(form, "state"),
     phone |-> Get(form, "phone"),
     website |-> Get(form, "website"),
     seeking_talent |-> Truthy(Get(form, "seeking_talent")),
     seeking_description |-> Get(form, "seeking_description"),
     image_link |-> Get(form, "image_link"),
     facebook_link |-> Get(form, "facebook_link")]

\* Venue(name=..., genres=..., ...): the row the create handler builds.
Venue(form) ==
    [name |-> Get(form, "name"),
     genres |-> GetList(form, "genres"),
     address |-> Get(form, "address"),
     city |-> Get(form, "city"),
     state |-> Get(form, "state"),
     phone |-> Get(form, "phone"),
     website |-> Get(form, "website_link"),
     seeking_talent |-> Truthy(Get(form, "seeking_talent")),
     seeking_description |-> Get(form, "seeking_description"),
     image_link |-> Get(form, "image_link"),
     facebook_link |-> Get(form, "facebook_link")]

\* db.session.add(venue) of a new row, flushed under the id the sequence gave.
Insert(tbl, id, row) ==
    [i \in DOMAIN tbl \cup {id} |-> IF i = id THEN row ELSE tbl[i]]

\* A delete that never reaches the table.
RemoveUnflushed(tbl, id) == tbl

\* db.session.delete(venue), flushed.
Remove(tbl, id) == [i \in DOMAIN tbl \ {id} |-> tbl[i]]

\* An UPDATE without its WHERE clause: every row gets the columns.
UpdateEveryRow(tbl, id, row, cols) ==
    [i \in DOMAIN tbl |-> [c \in Cols |-> IF c \in cols THEN row[c] ELSE tbl[i][c]]]

\* The UPDATE a flush emits for a loaded row: it sets the columns cols only.
Update(tbl, id, row, cols) ==
    [tbl EXCEPT ![id] = [c \in Cols |-> IF c \in cols THEN row[c] ELSE @[c]]]

\* A rollback that leaves what the session had written.
RollbackKeepsPending(committed, pending) == pending

\* db.session.rollback(): the table is what was committed, whatever the
\* session had pending.
Rollback(committed, pending) == committed

\* flash(...): the messages of the handlers, by their parts.
Success(verb, name) ==
    [outcome |-> "successfully", verb |-> verb, name |-> name, because |-> NoError]

\* The failure message written with the words of the success message.
FailureWordedAsSuccess(verb, name, e) ==
    [outcome |-> "successfully", verb |-> verb, name |-> Str(name), because |-> e]

Failure(verb, name, e) ==
    [outcome |-> "unsuccessfully", verb |-> verb, name |-> Str(name), because |-> e]

\* render_template(template) with a status, and redirect(url_for(...)).
Render(template, status) == [status |-> status, body |-> template]

\* The sessions a request can run in, and the state of one with no request.
Clients == {"c1", "c2"}

Idle == [state |-> "idle"]

(***************************************************************************)
(* The initial database: empty, or holding one venue that a show of one    *)
(* artist is booked at.  No route of app.py writes the shows table or the  *)
(* artists table.                                                          *)
(***************************************************************************)
Artist1 == [id |-> 1, name |-> <<"G">>]

Show1 == [id |-> 1, artist_id |-> 1, venue_id |-> 1]

Init ==
    /\ \/ /\ db_venues = <<>>
          /\ db_shows = {}
          /\ db_artists = {}
          /\ venues_id_seq = 1
       \/ /\ db_venues = Insert(<<>>, 1, Venue(Form1))
          /\ db_shows = {Show1}
          /\ db_artists = {Artist1}
          /\ venues_id_seq = 2
    /\ inflight = [c \in Clients |-> Idle]
    /\ request = [route |-> "index", venue_id |-> 0, form |-> EmptyForm]
    /\ before = db_venues
    /\ raised = NoError
    /\ flashed = <<>>
    /\ response = Render("pages/home.html", 200)

(***************************************************************************)
(* POST /venues/create                                                     *)
(*                                                                         *)
(* The INSERT draws the id from the sequence of the serial primary key,    *)
(* and PostgreSQL does not give a drawn value back when the INSERT fails.  *)
(***************************************************************************)
create_venue_submission(form) ==
    LET venue == Venue(form)
        id == venues_id_seq
        pending == Insert(db_venues, id, venue)
        e == CheckRow(venue, Cols)
        error == e # NoError
    IN  /\ venues_id_seq <= MaxId
        /\ venues_id_seq' = venues_id_seq + 1
        /\ db_venues' = IF error THEN Rollback(db_venues, pending) ELSE pending
        /\ request' = [route |-> "create_venue_submission", venue_id |-> 0, form |-> form]
        /\ before' = db_venues
        /\ IF ~error /\ Get(form, "name") = None
           THEN \* "Venue " + None: an unhandled TypeError, the 500 page
                /\ raised' = TypeError
                /\ flashed' = <<>>
                /\ response' = Render("errors/500.html", 500)
           ELSE /\ raised' = e
                /\ flashed' = IF error
                              THEN <<Failure("listed", Get(form, "name"), e)>>
                              ELSE <<Success("listed", Get(form, "name"))>>
                /\ response' = Render("pages/home.html", 200)
        /\ UNCHANGED <<db_shows, db_artists, inflight>>

\* Venue.query.get_or_404(venue_id): the row, or the NotFound that abort(404)
\* raises.
get_or_404(tbl, venue_id) ==
    IF venue_id \in DOMAIN tbl
    THEN [e |-> NoError, venue |-> tbl[venue_id]]
    ELSE [e |-> NotFound]

(***************************************************************************)
(* DELETE or POST /venues/<venue_id>                                       *)
(***************************************************************************)
\* The flush of a deleted venue: the shows relationship has no delete
\* cascade, so the ORM sets venue_id of the venue's shows to NULL, which the
\* NOT NULL of shows.venue_id refuses.
FlushDelete(shows, venue_id) ==
    IF \E s \in shows : s.venue_id = venue_id THEN NotNullViolation ELSE NoError

delete_venue(venue_id, form) ==
    LET got == get_or_404(db_venues, venue_id)
        e == IF got.e # NoError THEN got.e ELSE FlushDelete(db_shows, venue_id)
        error == e # NoError
        pending == Remove(db_venues, venue_id)
    IN  /\ db_venues' = IF error THEN Rollback(db_venues, pending) ELSE pending
        /\ request' = [route |-> "delete_venue", venue_id |-> venue_id, form |-> form]
        /\ before' = db_venues
        /\ raised' = e
        /\ flashed' = IF error
                      THEN <<Failure("deleted", Get(form, "name"), e)>>
                      ELSE <<Success("deleted", got.venue.name)>>
        /\ response' = Render("pages/home.html", 204)
        /\ UNCHANGED <<db_shows, db_artists, venues_id_seq, inflight>>

(***************************************************************************)
(* GET /venues/<venue_id> and GET /venues/<venue_id>/edit                  *)
(***************************************************************************)
\* A handler that reads one venue: abort(404) reaches the 404 error handler.
ReadVenue(route, template, venue_id) ==
    LET got == get_or_404(db_venues, venue_id)
    IN  /\ request' = [route |-> route, venue_id |-> venue_id, form |-> EmptyForm]
        /\ before' = db_venues
        /\ raised' = got.e
        /\ flashed' = <<>>
        /\ response' = IF got.e = NotFound
                       THEN Render("errors/404.html", 404)
                       ELSE [status |-> 200, body |-> template,
                             id |-> venue_id, venue |-> got.venue]
        /\ UNCHANGED <<db_venues, db_shows, db_artists, venues_id_seq, inflight>>

show_venue(venue_id) == ReadVenue("show_venue", "pages/show_venue.html", venue_id)

edit_venue(venue_id) == ReadVenue("edit_venue", "forms/edit_venue.html", venue_id)

(***************************************************************************)
(* POST /venues/<venue_id>/edit                                            *)
(***************************************************************************)
\* venue.name = request.form.get("name") ... venue.seeking_description = ...
EditAssign(venue, form) ==
    [venue EXCEPT
        !.name = Get(form, "name"),
        !.city = Get(form, "city"),
        !.state = Get(form, "state"),
        !.address = Get(form, "address"),
        !.phone = Get(form, "phone"),
        !.genres = GetList(form, "genres"),
        !.facebook_link = Get(form, "facebook_link"),
        !.image_link = Get(form, "image_link"),
        !.website = Get(form, "website_link"),
        !.seeking_talent = Truthy(Get(form, "seeking_talent")),
        !.seeking_description = Get(form, "seeking_description")]

\* A unit of work that writes every column of the row back.
DirtyAll(loaded, venue) == Cols

\* The columns the unit of work finds modified: those whose value differs
\* from the value the row was loaded with.
Dirty(loaded, venue) == {c \in Cols : venue[c] # loaded[c]}

\* What the flush of an edited venue raises: nothing is sent when no column
\* is dirty; an UPDATE that matches no row is a StaleDataError.
FlushEdit(tbl, venue_id, venue, cols) ==
    IF cols = {} THEN NoError
    ELSE IF venue_id \notin DOMAIN tbl THEN StaleDataError
    ELSE CheckRow(venue, cols)

\* The handler from the row get_or_404 gave to its response.
EditFrom(venue_id, form, got) ==
    LET venue == EditAssign(got.venue, form)
        cols == Dirty(got.venue, venue)
        e == IF got.e # NoError THEN got.e
             ELSE FlushEdit(db_venues, venue_id, venue, cols)
        error == e # NoError
        pending == IF got.e # NoError \/ venue_id \notin DOMAIN db_venues
                   THEN db_venues
                   ELSE Update(db_venues, venue_id, venue, cols)
    IN  /\ db_venues' = IF error THEN Rollback(db_venues, pending) ELSE pending
        /\ request' = [route |-> "edit_venue_submission", venue_id |-> venue_id,
                       form |-> form, got |-> got]
        /\ before' = db_venues
        /\ IF ~error /\ Get(form, "name") = None
           THEN /\ raised' = TypeError
                /\ flashed' = <<>>
                /\ response' = Render("errors/500.html", 500)
           ELSE /\ raised' = e
                /\ flashed' = IF error
                              THEN <<Failure("edited", Get(form, "name"), e)>>
                              ELSE <<Success("edited", Get(form, "name"))>>
                /\ response' = [status |-> 302, body |-> "show_venue",
                                id |-> venue_id]
        /\ UNCHANGED <<db_shows, db_artists, venues_id_seq>>

edit_venue_submission(venue_id, form) ==
    /\ EditFrom(venue_id, form, get_or_404(db_venues, venue_id))
    /\ UNCHANGED inflight

(***************************************************************************)
(* GET /venues and POST /venues/search                                     *)
(***************************************************************************)
\* The orders in which a query without ORDER BY can return the rows ids.
Orders(ids) ==
    {q \in [1..Cardinality(ids) -> ids] :
        \A i, j \in DOMAIN q : i # j => q[i] # q[j]}

\* Query.filter(...).all(): the rows of scan that the filter keeps, in scan
\* order.
Filter(scan, keep) == SelectSeq(scan, LAMBDA i : i \in keep)

\* DISTINCT ON (city) alone.
DistinctOnCity(tbl, scan) ==
    LET first == {k \in DOMAIN scan :
                    \A j \in 1..(k - 1) : tbl[scan[j]].city # tbl[scan[k]].city}
    IN  Filter(scan, {scan[k] : k \in first})

\* Venue.query.distinct(Venue.city, Venue.state).all(): DISTINCT ON (city,
\* state) keeps the first row of every group of rows equal in both columns.
DistinctOn(tbl, scan) ==
    LET first == {k \in DOMAIN scan :
                    \A j \in 1..(k - 1) :
                        ~(/\ tbl[scan[j]].city = tbl[scan[k]].city
                          /\ tbl[scan[j]].state = tbl[scan[k]].state)}
    IN  Filter(scan, {scan[k] : k \in first})

\* [{"id": ..., "name": ..., "num_upcoming_shows": 0} for ... in results]
Listing(tbl, ids) ==
    [k \in DOMAIN ids |->
        [id |-> ids[k], name |-> tbl[ids[k]].name, num_upcoming_shows |-> 0]]

\* The areas list of GET /venues: for every row of venue_areas, the venues
\* filtered by its state and its city.
Areas(tbl, scan) ==
    LET venue_areas == DistinctOn(tbl, scan)
    IN  [k \in DOMAIN venue_areas |->
            LET venue_area == tbl[venue_areas[k]]
                venues_result ==
                    Filter(scan, {i \in DOMAIN tbl :
                                    /\ tbl[i].state = venue_area.state
                                    /\ tbl[i].city = venue_area.city})
            IN  [city |-> venue_area.city, state |-> venue_area.state,
                 venues |-> Listing(tbl, venues_result)]]

venues(scan) ==
    /\ request' = [route |-> "venues", venue_id |-> 0, form |-> EmptyForm]
    /\ before' = db_venues
    /\ raised' = NoError
    /\ flashed' = <<>>
    /\ response' = [status |-> 200, body |-> "pages/venues.html",
                    areas |-> Areas(db_venues, scan)]
    /\ UNCHANGED <<db_venues, db_shows, db_artists, venues_id_seq, inflight>>

\* str.lower() of a character, as ILIKE folds case.
Lower(ch) ==
    CASE ch = "H" -> "h"
      [] ch = "O" -> "o"
      [] ch = "N" -> "n"
      [] ch = "P" -> "p"
      [] ch = "A" -> "a"
      [] ch = "B" -> "b"
      [] OTHER -> ch

\* text LIKE pattern, case folded: % matches any run of characters, _ any one
\* character, and a backslash takes the next character literally.
RECURSIVE ilike(_, _)
ilike(text, pattern) ==
    IF pattern = <<>> THEN text = <<>>
    ELSE IF Head(pattern) = "%"
    THEN \/ ilike(text, Tail(pattern))
         \/ text # <<>> /\ ilike(Tail(text), pattern)
    ELSE IF Head(pattern) = "_"
    THEN text # <<>> /\ ilike(Tail(text), Tail(pattern))
    ELSE IF Head(pattern) = "\\" /\ Len(pattern) >= 2
    THEN /\ text # <<>>
         /\ Lower(Head(text)) = Lower(pattern[2])
         /\ ilike(Tail(text), Tail(Tail(pattern)))
    ELSE /\ text # <<>>
         /\ Lower(Head(text)) = Lower(Head(pattern))
         /\ ilike(Tail(text), Tail(pattern))

\* f"%{search_term}%"
SearchPattern(search_term) == <<"%">> \o Str(search_term) \o <<"%">>

\* The search terms submitted, and the forms carrying them or none.
SearchTerms ==
    {<<"h", "O", "p">>, <<"_">>, <<"%">>, <<"x">>}

SearchForms == {[search_term |-> t] : t \in SearchTerms} \cup {EmptyForm}

search_venues(form, scan) ==
    LET search_term == Get(form, "search_term")
        results == Filter(scan, {i \in DOMAIN db_venues :
                                    ilike(db_venues[i].name,
                                          SearchPattern(search_term))})
    IN  /\ request' = [route |-> "search_venues", venue_id |-> 0, form |-> form]
        /\ before' = db_venues
        /\ raised' = NoError
        /\ flashed' = <<>>
        /\ response' = [status |-> 200, body |-> "pages/search_venues.html",
                        results |-> [count |-> Len(results),
                                     data |-> Listing(db_venues, results)],
                        search_term |-> IF search_term = None THEN <<>>
                                        ELSE search_term]
        /\ UNCHANGED <<db_venues, db_shows, db_artists, venues_id_seq, inflight>>

(***************************************************************************)
(* The routes that touch no table: the home page, the blank forms, and the *)
(* artist and show routes, which answer from fixtures.                     *)
(***************************************************************************)
IndexError == "IndexError"
BadRequestKeyError == "400 Bad Request"

\* A handler that neither reads nor writes the database.
Answer(route, id, form, e, flashes, resp) ==
    /\ request' = [route |-> route, venue_id |-> id, form |-> form]
    /\ before' = db_venues
    /\ raised' = e
    /\ flashed' = flashes
    /\ response' = resp
    /\ UNCHANGED <<db_venues, db_shows, db_artists, venues_id_seq, inflight>>

index == Answer("index", 0, EmptyForm, NoError, <<>>, Render("pages/home.html", 200))

create_venue_form ==
    Answer("create_venue_form", 0, EmptyForm, NoError, <<>>,
           Render("forms/new_venue.html", 200))

artists ==
    Answer("artists", 0, EmptyForm, NoError, <<>>, Render("pages/artists.html", 200))

search_artists ==
    Answer("search_artists", 0, EmptyForm, NoError, <<>>,
           Render("pages/search_artists.html", 200))

\* The ids of the fixtures data1, data2 and data3.
FixtureArtists == {4, 5, 6}

\* The artist ids requested: one of a fixture and one of none.
ArtistIds == {4, 7}

\* list(filter(...))[0] raises IndexError for an id of no fixture: the 500 page.
show_artist(artist_id) ==
    IF artist_id \in FixtureArtists
    THEN Answer("show_artist", artist_id, EmptyForm, NoError, <<>>,
                Render("pages/show_artist.html", 200))
    ELSE Answer("show_artist", artist_id, EmptyForm, IndexError, <<>>,
                Render("errors/500.html", 500))

edit_artist(artist_id) ==
    Answer("edit_artist", artist_id, EmptyForm, NoError, <<>>,
           Render("forms/edit_artist.html", 200))

edit_artist_submission(artist_id) ==
    Answer("edit_artist_submission", artist_id, EmptyForm, NoError, <<>>,
           [status |-> 302, body |-> "show_artist", id |-> artist_id])

create_artist_form ==
    Answer("create_artist_form", 0, EmptyForm, NoError, <<>>,
           Render("forms/new_artist.html", 200))

\* The artist forms submitted: with a name and without.
ArtistForms == {[name |-> <<"G">>], EmptyForm}

\* request.form["name"] of a form without the field is a 400; nothing is
\* inserted either way.
create_artist_submission(form) ==
    IF "name" \in DOMAIN form
    THEN Answer("create_artist_submission", 0, form, NoError,
                <<[outcome |-> "successfully", verb |-> "listed",
                   name |-> form.name, because |-> NoError]>>,
                Render("pages/home.html", 200))
    ELSE Answer("create_artist_submission", 0, form, BadRequestKeyError, <<>>,
                Render("400", 400))

shows == Answer("shows", 0, EmptyForm, NoError, <<>>, Render("pages/shows.html", 200))

create_shows ==
    Answer("create_shows", 0, EmptyForm, NoError, <<>>,
           Render("forms/new_show.html", 200))

create_show_submission ==
    Answer("create_show_submission", 0, EmptyForm, NoError,
           <<[outcome |-> "successfully", verb |-> "listed",
              name |-> <<>>, because |-> NoError]>>,
           Render("pages/home.html", 200))

Next ==
    \/ \E scan \in Orders(DOMAIN db_venues) : venues(scan)
    \/ \E form \in SearchForms, scan \in Orders(DOMAIN db_venues) :
          search_venues(form, scan)
    \/ \E form \in Forms : create_venue_submission(form)
    \/ \E venue_id \in Ids : delete_venue(venue_id, EmptyForm)
    \/ \E venue_id \in Ids : show_venue(venue_id)
    \/ \E venue_id \in Ids : edit_venue(venue_id)
    \/ \E venue_id \in Ids, form \in EditForms : edit_venue_submission(venue_id, form)
    \/ index
    \/ create_venue_form
    \/ artists
    \/ search_artists
    \/ \E artist_id \in ArtistIds : show_artist(artist_id)
    \/ \E artist_id \in ArtistIds : edit_artist(artist_id)
    \/ \E artist_id \in ArtistIds : edit_artist_submission(artist_id)
    \/ create_artist_form
    \/ \E form \in ArtistForms : create_artist_submission(form)
    \/ shows
    \/ create_shows
    \/ create_show_submission

Spec == Init /\ [][Next]_vars

(***************************************************************************)
(* Two edit submissions in flight at once, each in a session of its own:   *)
(* get_or_404 reads the row as committed then, and the commit writes the   *)
(* dirty columns into the row as committed by then.  The UPDATE and its    *)
(* COMMIT are one step: the row lock makes a second UPDATE wait for them.  *)
(***************************************************************************)
ConcForms == {Form1, Form3, Drop(Form1, {"genres"})}

InitConc ==
    /\ db_venues = Insert(<<>>, 1, Venue(Form1))
    /\ db_shows = {}
    /\ db_artists = {}
    /\ venues_id_seq = 2
    /\ inflight = [c \in Clients |-> Idle]
    /\ request = [route |-> "index", venue_id |-> 0, form |-> EmptyForm]
    /\ before = db_venues
    /\ raised = NoError
    /\ flashed = <<>>
    /\ response = Render("pages/home.html", 200)

\* The handler up to get_or_404; a NotFound is caught at once and the handler
\* runs to its response.
edit_venue_load(c, venue_id, form) ==
    LET got == get_or_404(db_venues, venue_id)
    IN  /\ inflight[c] = Idle
        /\ IF got.e # NoError
           THEN /\ EditFrom(venue_id, form, got)
                /\ UNCHANGED inflight
           ELSE /\ inflight' = [inflight EXCEPT ![c] =
                                  [state |-> "loaded", venue_id |-> venue_id,
                                   form |-> form, got |-> got]]
                /\ UNCHANGED <<db_venues, db_shows, db_artists, venues_id_seq,
                               request, before, raised, flashed, response>>

\* The handler from the assignments to its response.
edit_venue_commit(c) ==
    /\ inflight[c] # Idle
    /\ EditFrom(inflight[c].venue_id, inflight[c].form, inflight[c].got)
    /\ inflight' = [inflight EXCEPT ![c] = Idle]

NextConc ==
    \/ \E c \in Clients, venue_id \in Ids, form \in ConcForms :
          edit_venue_load(c, venue_id, form)
    \/ \E c \in Clients : edit_venue_commit(c)
    \/ \E venue_id \in Ids : delete_venue(venue_id, EmptyForm)

SpecConc == InitConc /\ [][NextConc]_vars

(***************************************************************************)
(* Properties of the handlers.  request, before, raised, flashed and       *)
(* response describe the request handled last: every step of Spec handles  *)
(* one request, and before is the venues table as that request found it.   *)
(***************************************************************************)
\* The form field each column is submitted in.
FieldOf(c) == IF c = "website" THEN "website_link" ELSE c

\* The form fields of the NOT NULL columns that the create claims name.
RequiredFields == {"name", "genres", "address", "city", "state", "phone",
                   "website_link", "seeking_description", "image_link",
                   "facebook_link"}

AllPresent(form) == RequiredFields \subseteq DOMAIN form

\* row carries the values form submits in its fields.
Carries(row, form) ==
    /\ \A c \in Cols \ {"seeking_talent"} :
          FieldOf(c) \in DOMAIN form => row[c] = form[FieldOf(c)]
    /\ "seeking_talent" \in DOMAIN form =>
          row.seeking_talent = (form.seeking_talent # <<>>)

\* Every submitted text fits the declared length of its column.
Fits(form) ==
    \A c \in TextCols :
        (FieldOf(c) \in DOMAIN form /\ ColLimit(c) > 0)
            => Len(form[FieldOf(c)]) <= ColLimit(c)

\* The table is before with exactly one more row, which carries form.
OneRowAdded(form) ==
    \E id \in DOMAIN db_venues \ DOMAIN before :
        /\ DOMAIN db_venues = DOMAIN before \cup {id}
        /\ \A i \in DOMAIN before : db_venues[i] = before[i]
        /\ Carries(db_venues[id], form)
        /\ "seeking_talent" \notin DOMAIN form => db_venues[id].seeking_talent = FALSE

OneFlash(outcome, verb) ==
    /\ Len(flashed) = 1
    /\ flashed[1].outcome = outcome
    /\ flashed[1].verb = verb

\* C1 as stated: a create submission that carries all the NOT NULL fields
\* leaves the previous rows plus exactly one new row with the submitted values,
\* and flashes the success message naming the venue, and nothing else.
C1_AllPresentCreates ==
    (request.route = "create_venue_submission" /\ AllPresent(request.form))
        => /\ OneRowAdded(request.form)
           /\ OneFlash("successfully", "listed")
           /\ flashed[1].name = request.form.name

\* C1 amended: the same, for the submissions whose values also fit the
\* declared lengths of their columns.
C1_FittingCreates ==
    (/\ request.route = "create_venue_submission"
     /\ AllPresent(request.form)
     /\ Fits(request.form))
        => /\ OneRowAdded(request.form)
           /\ OneFlash("successfully", "listed")
           /\ flashed[1].name = request.form.name

C1_Witness ==
    /\ request.route = "create_venue_submission"
    /\ AllPresent(request.form)
    /\ Fits(request.form)
    /\ before # <<>>
    /\ Cardinality(DOMAIN db_venues) = Cardinality(DOMAIN before) + 1

\* C2 as stated: a create submission short of any of the NOT NULL fields adds
\* no row and flashes the failure message with the error, never the success
\* message.
C2_MissingFieldRefused ==
    (request.route = "create_venue_submission" /\ ~AllPresent(request.form))
        => /\ db_venues = before
           /\ OneFlash("unsuccessfully", "listed")
           /\ flashed[1].because # NoError

\* C3 as stated: deleting a venue that exists removes its row, leaves the
\* other rows as they were, and answers 204.
C3_ExistingDeleted ==
    (request.route = "delete_venue" /\ request.venue_id \in DOMAIN before)
        => /\ DOMAIN db_venues = DOMAIN before \ {request.venue_id}
           /\ \A i \in DOMAIN db_venues : db_venues[i] = before[i]
           /\ response.status = 204

\* C3 amended: the same, for a venue that no show is booked at.
C3_UnbookedDeleted ==
    (/\ request.route = "delete_venue"
     /\ request.venue_id \in DOMAIN before
     /\ \A s \in db_shows : s.venue_id # request.venue_id)
        => /\ DOMAIN db_venues = DOMAIN before \ {request.venue_id}
           /\ \A i \in DOMAIN db_venues : db_venues[i] = before[i]
           /\ response.status = 204

C3_Witness ==
    /\ request.route = "delete_venue"
    /\ request.venue_id \in DOMAIN before
    /\ \A s \in db_shows : s.venue_id # request.venue_id
    /\ db_venues # <<>>
    /\ db_venues # before

\* C4 as stated: deleting an id no venue has answers 404 and leaves the table
\* as it was.
C4_AbsentDeleteIs404 ==
    (request.route = "delete_venue" /\ request.venue_id \notin DOMAIN before)
        => /\ response.status = 404
           /\ db_venues = before

\* text has term in it as a substring, letter case ignored.
Contains(text, term) ==
    \E k \in 0..(Len(text) - Len(term)) :
        \A j \in 1..Len(term) : Lower(text[k + j]) = Lower(term[j])

\* C5 as stated: a search returns exactly the venues whose name contains the
\* submitted term as a literal substring, letter case ignored, each once, and
\* count is their number.  For a form without the field the term is read as
\* the text the handler formats into its pattern, the reading kindest to it.
C5_LiteralSubstring ==
    request.route = "search_venues" =>
        LET term == IF "search_term" \in DOMAIN request.form
                    THEN request.form.search_term ELSE Str(None)
            data == response.results.data
        IN  /\ {data[k].id : k \in DOMAIN data}
                 = {i \in DOMAIN db_venues : Contains(db_venues[i].name, term)}
            /\ \A j, k \in DOMAIN data : j # k => data[j].id # data[k].id
            /\ response.results.count = Len(data)

\* C6 as stated: an edit of a venue that exists stores every submitted field
\* and leaves every field that was not submitted as it was.
C6_OnlySubmittedChange ==
    (request.route = "edit_venue_submission" /\ request.venue_id \in DOMAIN before)
        => /\ request.venue_id \in DOMAIN db_venues
           /\ Carries(db_venues[request.venue_id], request.form)
           /\ \A c \in Cols :
                 FieldOf(c) \notin DOMAIN request.form
                    => db_venues[request.venue_id][c] = before[request.venue_id][c]

\* C7: the areas of GET /venues have one entry for every (city, state) pair
\* of the stored venues, no two entries for the same pair, and the venues of
\* an entry are exactly the stored venues of its city and state, each once.
C7_AreasPartition ==
    request.route = "venues" =>
        LET areas == response.areas
        IN  /\ \A j, k \in DOMAIN areas :
                  (areas[j].city = areas[k].city /\ areas[j].state = areas[k].state)
                     => j = k
            /\ {<<areas[k].city, areas[k].state>> : k \in DOMAIN areas}
                 = {<<db_venues[i].city, db_venues[i].state>> : i \in DOMAIN db_venues}
            /\ \A k \in DOMAIN areas :
                  LET vs == areas[k].venues
                  IN  /\ {vs[n].id : n \in DOMAIN vs}
                           = {i \in DOMAIN db_venues :
                                 /\ db_venues[i].city = areas[k].city
                                 /\ db_venues[i].state = areas[k].state}
                      /\ \A m, n \in DOMAIN vs : m # n => vs[m].id # vs[n].id
                      /\ \A n \in DOMAIN vs : vs[n].name = db_venues[vs[n].id].name

\* Two venues of one area and a venue of another are listed.
C7_Witness ==
    /\ request.route = "venues"
    /\ \E k \in DOMAIN response.areas : Len(response.areas[k].venues) = 2
    /\ Cardinality(DOMAIN db_venues) = 2

\* C8 as stated: the venue page, the edit form and the edit submission answer
\* 404 for an id no venue has, flash no success and leave the table as it was.
C8_AbsentVenueIs404 ==
    (/\ request.route \in {"show_venue", "edit_venue", "edit_venue_submission"}
     /\ request.venue_id \notin DOMAIN before)
        => /\ response.status = 404
           /\ \A k \in DOMAIN flashed : flashed[k].outcome # "successfully"
           /\ db_venues = before

\* The errors a database write raises.
WriteErrors == {NotNullViolation, StringDataRightTruncation, StaleDataError}

\* C9: when the database write of an edit or of a delete raises, the venues
\* table is as the request found it and the one flash is the failure message
\* carrying the error raised.
C9_FailedWriteRolledBack ==
    (/\ request.route \in {"edit_venue_submission", "delete_venue"}
     /\ raised \in WriteErrors)
        => /\ db_venues = before
           /\ Len(flashed) = 1
           /\ flashed[1].outcome = "unsuccessfully"
           /\ flashed[1].because = raised

\* An edit that changes one column to a text and another to NULL is refused.
C9_Witness ==
    /\ request.route = "edit_venue_submission"
    /\ raised = NotNullViolation
    /\ request.venue_id \in DOMAIN before
    /\ \E c \in TextCols :
          /\ FieldOf(c) \in DOMAIN request.form
          /\ request.form[FieldOf(c)] # before[request.venue_id][c]

\* The value an edit submission gives column c: the submitted one, and for a
\* field the form leaves out no genres, an unticked box, or no text at all.
Submitted(form, c) ==
    IF c = "seeking_talent"
    THEN "seeking_talent" \in DOMAIN form /\ form.seeking_talent # <<>>
    ELSE IF FieldOf(c) \in DOMAIN form THEN form[FieldOf(c)]
    ELSE IF c = "genres" THEN <<>>
    ELSE None

\* The edit handled last committed its write to a venue that is stored.
EditCommitted ==
    /\ request.route = "edit_venue_submission"
    /\ request.got.e = NoError
    /\ raised = NoError
    /\ request.venue_id \in DOMAIN before

\* C10 as stated: after interleaved edit submissions of one venue commit, the
\* row holds in every field the values of the submission that committed last.
C10_LastCommitWinsWholeRow ==
    EditCommitted =>
        \A c \in Cols :
            db_venues[request.venue_id][c] = Submitted(request.form, c)

\* C10 amended: an edit submission whose values the schema accepts commits
\* whatever was committed since it read the row, and afterwards every column
\* whose submitted value differs from the value the request read holds the
\* submitted value, and every other column holds what it held before this
\* commit.
C10_LastCommitWinsPerColumn ==
    /\ (/\ request.route = "edit_venue_submission"
        /\ request.got.e = NoError
        /\ request.venue_id \in DOMAIN before
        /\ AllPresent(request.form)
        /\ Fits(request.form))
          => raised = NoError
    /\ EditCommitted =>
          \A c \in Cols :
              db_venues[request.venue_id][c] =
                  IF Submitted(request.form, c) # request.got.venue[c]
                  THEN Submitted(request.form, c)
                  ELSE before[request.venue_id][c]

\* A commit over a row another submission changed since it was read, leaving
\* a row that is the form of neither.
C10_Witness ==
    /\ EditCommitted
    /\ request.got.venue # before[request.venue_id]
    /\ \E c \in Cols :
          db_venues[request.venue_id][c] # Submitted(request.form, c)
    /\ \E c \in Cols :
          /\ Submitted(request.form, c) # request.got.venue[c]
          /\ db_venues[request.venue_id][c] = Submitted(request.form, c)

VenueWrites == {"create_venue_submission", "edit_venue_submission", "delete_venue"}

VerbOf(route) ==
    CASE route = "create_venue_submission" -> "listed"
      [] route = "edit_venue_submission" -> "edited"
      [] route = "delete_venue" -> "deleted"

\* The change the submission handled last asked for is in the table: the
\* new row carrying the form, the named row gone, or every column the edit
\* set to a value other than the one it read holding that value.
ChangeCommitted ==
    CASE request.route = "create_venue_submission" ->
            \E id \in DOMAIN db_venues \ DOMAIN before :
                Carries(db_venues[id], request.form)
      [] request.route = "delete_venue" ->
            /\ request.venue_id \in DOMAIN before
            /\ request.venue_id \notin DOMAIN db_venues
      [] request.route = "edit_venue_submission" ->
            /\ request.got.e = NoError
            /\ \A c \in Cols :
                  Submitted(request.form, c) # request.got.venue[c]
                    => /\ request.venue_id \in DOMAIN db_venues
                       /\ db_venues[request.venue_id][c] = Submitted(request.form, c)

\* C12: a venue create, edit or delete submission emits exactly one flash,
\* worded for its route; the flash is the success message exactly when the
\* change of the request is committed; a committed change comes with the
\* handler's own response, not an error page, and an uncommitted one leaves
\* the venues table as it was.
C12_OneFlashTellingTheOutcome ==
    request.route \in VenueWrites =>
        /\ Len(flashed) = 1
        /\ flashed[1].verb = VerbOf(request.route)
        /\ flashed[1].outcome \in {"successfully", "unsuccessfully"}
        /\ flashed[1].outcome = "successfully" <=> ChangeCommitted
        /\ ChangeCommitted => response.status \in {200, 204, 302}
        /\ ~ChangeCommitted => db_venues = before

\* A delete that removed its venue and said so.
C12_Witness ==
    /\ request.route = "delete_venue"
    /\ ChangeCommitted
    /\ Len(flashed) = 1
    /\ flashed[1].outcome = "successfully"
    /\ flashed[1].name = before[request.venue_id].name

====
